---- MODULE Spec2Model ----
(***************************************************************************)
(* Longitudinal segmentation metrics engines of brain-mri-segmentation:    *)
(*   calculate_session_metrics.py   (all-pairs engine, chunked writer)     *)
(*   compute_consecutive_metrics.py (consecutive engine, one final write)  *)
(* A Python string is a sequence of one-character strings; a file is a     *)
(* path identifier whose loaded array is a sequence of voxel labels.       *)
(* Spec and PairSpec run the engines; MetricSpec applies the per-label     *)
(* metric functions to two images; ResolveSpec applies the two engines'    *)
(* subject/session resolution to one file path; WalkSpec walks a directory *)
(* tree and builds the index; WriterSpec runs the all-pairs engine on       *)
(* readable files; DuoSpec runs two writers on one destination.            *)
(***************************************************************************)
EXTENDS Integers, Sequences, FiniteSets, TLC

VARIABLES
    engine,          \* which script runs: "allpairs" or "consecutive"
    files,           \* the segmentation files found that pass the subject filter,
                     \* as resolved records
    vols,            \* file contents: path -> loaded array (sequence of voxel labels)
    chunk_size,      \* args.chunk_size of the all-pairs engine
    destExists,      \* the output path exists on disk
    dest,            \* lines of the output file
    header_written,  \* writer's nonlocal flag
    pc,              \* position of the process
    subject_files,   \* subject -> (session -> path), both insertion ordered
    si,              \* position in subject_files.items()
    ses_list,        \* process_subject.session_list / main.ses_sorted
    session_pairs,   \* pairs selected for the current subject
    pi,              \* position in session_pairs
    buffer,          \* process_subject.buffer / main.rows
    run,             \* number of the current invocation
    startExists,     \* history: destExists when this invocation started
    startDest,       \* history: dest when this invocation started
    fresh0,          \* history: the destination was absent at the first invocation
    flushedBefore,   \* history: an earlier invocation performed a non-empty write
    prevEnd,         \* history: how the previous invocation ended ("none" at first)
    passed,          \* history: sizes of the non-empty chunks given to writer, this run
    produced,        \* history: rows computed in this invocation, production order
    evaluated,       \* history: pairs evaluated in this invocation
    img1,            \* metric functions: the first loaded image
    img2,            \* metric functions: the second loaded image
    lbl,             \* metric functions: the label compared
    fwd,             \* metric functions: results for (img1, img2), <<>> before the call
    bwd,             \* metric functions: results for (img2, img1), <<>> before the call
    full,            \* identity resolver: the path of a file found by the walk
    subjects_arg,    \* identity resolver: args.subjects ({} when not given)
    long_only,       \* identity resolver: args.long_only
    rall,            \* identity resolver: what the all-pairs engine indexes, <<>> before
    rcons,           \* identity resolver: what the consecutive engine indexes, <<>> before
    lut,             \* args.lut loaded: label -> metadata, <<>> without a table
    tree,            \* directory walk: the files below the root, as paths
    max_depth,       \* directory walk: args.max_depth, <<>> for None, else <<d>>
    todo,            \* directory walk: directories os.walk has still to yield
    found,           \* directory walk: the files accepted so far, discovery order
    procs            \* concurrent writers: per process its position, flag and chunks

vars == <<engine, files, vols, chunk_size, destExists, dest, header_written, pc,
          subject_files, si, ses_list, session_pairs, pi, buffer, run, startExists,
          startDest, fresh0, flushedBefore, prevEnd, passed, produced, evaluated,
          img1, img2, lbl, fwd, bwd, full, subjects_arg, long_only, rall, rcons,
          lut, tree, max_depth, todo, found, procs>>

\* ---------------------------------------------------------------- bounds
MaxRuns == 2
MaxChunk == 2
MaxPairFiles == 4
MaxFiles == 4
MaxZoom == 2
MaxLabel == 2
MaxParents == 1
MaxDepth == 3
MaxWrites == 2

\* ---------------------------------------------------------------- strings
\* Characters in code point order: Python compares str by code point.
CharOrder == <<"-", ".", "0", "1", "2", "3", "4", "5", "6", "7", "8", "9",
               "A", "_", "a", "b", "e", "s">>

Ord(c) == CHOOSE i \in 1..Len(CharOrder) : CharOrder[i] = c

IsDigit(c) == c \in {"0", "1", "2", "3", "4", "5", "6", "7", "8", "9"}

DigitVal(c) == Ord(c) - Ord("0")

Min(a, b) == IF a < b THEN a ELSE b

\* str.__lt__: lexicographic on code points, a proper prefix is smaller.
StrLess(s, t) ==
    \E i \in 1..(Min(Len(s), Len(t)) + 1) :
        /\ \A j \in 1..(i - 1) : s[j] = t[j]
        /\ \/ i > Len(s) /\ i <= Len(t)
           \/ i <= Len(s) /\ i <= Len(t) /\ Ord(s[i]) < Ord(t[i])

\* ---------------------------------------------------------------- sorting
\* Length of the run of digits of s that starts at position i ([0-9]+ is greedy).
RECURSIVE DigitRun(_, _)
DigitRun(s, i) ==
    IF i <= Len(s) /\ IsDigit(s[i]) THEN 1 + DigitRun(s, i + 1) ELSE 0

\* int() of a sequence of digit characters.
RECURSIVE ToInt(_)
ToInt(ds) ==
    IF ds = <<>> THEN 0
    ELSE 10 * ToInt(SubSeq(ds, 1, Len(ds) - 1)) + DigitVal(ds[Len(ds)])

\* Positions where "ses-" followed by at least one digit starts.
SesMatches(s) ==
    {i \in 1..Len(s) :
        /\ i + 4 <= Len(s)
        /\ SubSeq(s, i, i + 3) = <<"s", "e", "s", "-">>
        /\ IsDigit(s[i + 4])}

\* session_sort_key: (0, number) for the leftmost match of ses-([0-9]+),
\* (1, string) otherwise. A key is <<bucket, number, string>>.
session_sort_key(s) ==
    IF SesMatches(s) # {}
    THEN LET i == CHOOSE k \in SesMatches(s) : \A m \in SesMatches(s) : k <= m
         IN  <<0, ToInt(SubSeq(s, i + 4, i + 3 + DigitRun(s, i + 4))), <<>>>>
    ELSE <<1, 0, s>>

\* sorted(keys) without key=: the string itself is the key.
plain_key(s) == <<1, 0, s>>

\* Python tuple comparison of two keys.
KeyLess(a, b) ==
    \/ a[1] < b[1]
    \/ /\ a[1] = b[1]
       /\ IF a[1] = 0 THEN a[2] < b[2] ELSE StrLess(a[3], b[3])

\* sorted(seq, key=...): stable, elements with equal keys keep their input
\* order. keys[i] is the key of seq[i].
StableSort(seq, keys) ==
    LET n == Len(seq)
        before(j, i) == \/ KeyLess(keys[j], keys[i])
                        \/ /\ ~KeyLess(keys[i], keys[j])
                           /\ j < i
        pos(i) == 1 + Cardinality({j \in 1..n : before(j, i)})
    IN  [p \in 1..n |-> seq[CHOOSE i \in 1..n : pos(i) = p]]

\* session_list = sorted(sessions.keys())
session_list(l) == StableSort(l, [i \in 1..Len(l) |-> plain_key(l[i])])

\* ses_sorted = sorted(sessions.keys(), key=session_sort_key)
ses_sorted(l) == StableSort(l, [i \in 1..Len(l) |-> session_sort_key(l[i])])

\* Mutant of combinations: only neighbours in the list are paired.
combinations_AdjacentOnly(l) == [i \in 1..(Len(l) - 1) |-> <<l[i], l[i + 1]>>]

\* itertools.combinations(l, 2), in its order of production.
RECURSIVE combinations(_)
combinations(l) ==
    IF Len(l) < 2 THEN <<>>
    ELSE [j \in 1..(Len(l) - 1) |-> <<l[1], l[j + 1]>>] \o combinations(Tail(l))

\* Mutant of pairwise: every combination of two sessions is paired.
pairwise_AllCombinations(l) == combinations(l)

\* itertools.pairwise(l).
pairwise(l) == [i \in 1..(Len(l) - 1) |-> <<l[i], l[i + 1]>>]

\* ---------------------------------------------------------------- index
\* d.setdefault(subject, {})[session] = path on insertion-ordered dicts:
\* a dict is a sequence of <<key, value>>; an existing key keeps its place.
DictHas(d, k) == \E i \in 1..Len(d) : d[i][1] = k

DictGet(d, k) == d[CHOOSE i \in 1..Len(d) : d[i][1] = k][2]

DictSet(d, k, v) ==
    IF DictHas(d, k)
    THEN [i \in 1..Len(d) |-> IF d[i][1] = k THEN <<k, v>> ELSE d[i]]
    ELSE Append(d, <<k, v>>)

DictKeys(d) == [i \in 1..Len(d) |-> d[i][1]]

RECURSIVE BuildIndex(_, _)
BuildIndex(index, segs) ==
    IF segs = <<>> THEN index
    ELSE LET f == Head(segs)
             sessions == IF DictHas(index, f.subject)
                         THEN DictGet(index, f.subject) ELSE <<>>
         IN  BuildIndex(DictSet(index, f.subject,
                                DictSet(sessions, f.session, f.path)),
                        Tail(segs))

\* ---------------------------------------------------------------- volumes
\* A loaded array: shape <<d0, d1>> and its voxels in row-major order.
SeqToSet(q) == {q[i] : i \in 1..Len(q)}

\* np.concatenate([data1, data2]) joins along axis 0: the other axes must agree.
ConcatOK(v1, v2) == Tail(v1.shape) = Tail(v2.shape)

\* mask1 & mask2 broadcasts: on every axis the sizes agree or one of them is 1.
BroadcastOK(v1, v2) ==
    \A k \in 1..Len(v1.shape) :
        v1.shape[k] = v2.shape[k] \/ v1.shape[k] = 1 \/ v2.shape[k] = 1

\* Ascending sequence of the elements of a finite set of integers (np.unique).
RECURSIVE Ascending(_)
Ascending(S) ==
    IF S = {} THEN <<>>
    ELSE LET m == CHOOSE x \in S : \A y \in S : x <= y
         IN  <<m>> \o Ascending(S \ {m})

unique_labels(v1, v2) == Ascending((SeqToSet(v1.vox) \cup SeqToSet(v2.vox)) \ {0})

Row(subject, ses1, ses2, label) ==
    [kind |-> "row", subject |-> subject, session1 |-> ses1, session2 |-> ses2,
     label |-> label]

\* Keys of a result dict of the all-pairs engine in insertion order: those of
\* process_session_pair's literal, then the subject process_subject adds.
result_keys ==
    <<"session1", "session2", "label", "volume1", "volume2", "volume_diff",
      "dice", "surface_dice", "hd95", "subject">>

\* columns=[...] of the consecutive engine's DataFrame.
columns ==
    <<"subject", "session1", "session2", "label", "label_name", "structure",
      "region_category", "volume1", "volume2", "volume_diff", "dice",
      "surface_dice", "hd95">>

\* df.columns: of pd.DataFrame(rows) the keys of the dicts, of
\* pd.DataFrame(rows, columns=[...]) the list given.
DataFrameColumns(eng) == IF eng = "allpairs" THEN result_keys ELSE columns

\* The header line to_csv writes: the names of df.columns.
Header ==
    [kind |-> "header", subject |-> "", session1 |-> <<>>, session2 |-> <<>>,
     label |-> 0, columns |-> DataFrameColumns(engine)]

\* A file nibabel cannot read: load(path).get_fdata() raises.
Unreadable == [shape |-> <<>>, vox |-> <<>>]

LoadFails(v) == v = Unreadable

\* process_session_pair: the labels it returns one row for, or a raised error.
\* Loading raises on an unreadable file; np.concatenate raises on differing
\* trailing axes; with at least one label, mask_gt & mask_pred raises on shapes
\* that do not broadcast.
process_session_pair(v1, v2) ==
    IF LoadFails(v1) \/ LoadFails(v2) THEN [raised |-> TRUE, labels |-> <<>>]
    ELSE IF ~ConcatOK(v1, v2) THEN [raised |-> TRUE, labels |-> <<>>]
    ELSE IF unique_labels(v1, v2) # <<>> /\ ~BroadcastOK(v1, v2)
         THEN [raised |-> TRUE, labels |-> <<>>]
         ELSE [raised |-> FALSE, labels |-> unique_labels(v1, v2)]

\* args.labels of the consecutive engine.
ArgsLabels == <<2, 1>>

\* Mutant of compute_metrics: rows for the labels found in the volumes instead
\* of the requested ones.
compute_metrics_PresentLabels(v1, v2, labels) ==
    IF LoadFails(v1) \/ LoadFails(v2)
    THEN [raised |-> TRUE, skipped |-> FALSE, labels |-> <<>>]
    ELSE IF v1.shape # v2.shape
         THEN [raised |-> FALSE, skipped |-> TRUE, labels |-> <<>>]
         ELSE [raised |-> FALSE, skipped |-> FALSE, labels |-> unique_labels(v1, v2)]

\* compute_metrics: a raised error on an unreadable file, None on a shape
\* mismatch, else one row per requested label.
compute_metrics(v1, v2, labels) ==
    IF LoadFails(v1) \/ LoadFails(v2)
    THEN [raised |-> TRUE, skipped |-> FALSE, labels |-> <<>>]
    ELSE IF v1.shape # v2.shape
         THEN [raised |-> FALSE, skipped |-> TRUE, labels |-> <<>>]
         ELSE [raised |-> FALSE, skipped |-> FALSE, labels |-> labels]

Rows(subject, pair, labels) ==
    [i \in 1..Len(labels) |-> Row(subject, pair[1], pair[2], labels[i])]

\* ---------------------------------------------------------------- label metadata
\* A value is <<v>>, None is <<>>.
Meta(label_name, structure, region_category) ==
    [label_name |-> label_name, structure |-> structure,
     region_category |-> region_category]

\* The empty dict lut.get(label, {}) falls back to: every .get gives None.
NoMeta == Meta(<<>>, <<>>, <<>>)

\* A lookup table file: label 1 only, its region_category column empty.
LutFile ==
    <<[label |-> 1, meta |-> Meta(<<"Left-Hippocampus">>, <<"Hippocampus">>, <<>>)]>>

\* args.lut: None, or the path of a table.
LutArgs == {<<>>, <<LutFile>>}

RECURSIVE LutOfRows(_, _)
LutOfRows(table, rows) ==
    IF rows = <<>> THEN table
    ELSE LutOfRows(DictSet(table, Head(rows).label, Head(rows).meta), Tail(rows))

\* load_lut: {} without a path, else lut[int(row["label"])] for each row.
load_lut(path) == IF path = <<>> THEN <<>> ELSE LutOfRows(<<>>, path[1])

\* lut.get(label, {})
LutGet(table, label) == IF DictHas(table, label) THEN DictGet(table, label) ELSE NoMeta

\* r["label_name"] = meta.get("label_name") and the two other fields.
Enrich(r, table) ==
    [kind |-> r.kind, subject |-> r.subject, session1 |-> r.session1,
     session2 |-> r.session2, label |-> r.label,
     label_name |-> LutGet(table, r.label).label_name,
     structure |-> LutGet(table, r.label).structure,
     region_category |-> LutGet(table, r.label).region_category]

\* Mutant of Enriched: rows whose label the table does not list are left out.
Enriched_ListedOnly(rows, table) ==
    LET Listed(r) == DictHas(table, r.label)
        kept == SelectSeq(rows, Listed)
    IN  [i \in 1..Len(kept) |-> Enrich(kept[i], table)]

\* for r in res: ... rows.append(r)
Enriched(rows, table) == [i \in 1..Len(rows) |-> Enrich(rows[i], table)]

\* ---------------------------------------------------------------- metrics
\* A loaded image: the array (shape, voxels in row-major order) and the voxel
\* sizes header.get_zooms() returns. A mask is an array of booleans.
Image(shape, vox, zooms) == [shape |-> shape, vox |-> vox, zooms |-> zooms]

\* data == label
Mask(img, label) ==
    [shape |-> img.shape, vox |-> [i \in 1..Len(img.vox) |-> img.vox[i] = label]]

\* mask.sum() / np.sum(mask)
MaskSum(m) == Cardinality({i \in 1..Len(m.vox) : m.vox[i]})

\* mask_gt & mask_pred on arrays of one shape
MaskAnd(m1, m2) ==
    [shape |-> m1.shape, vox |-> [i \in 1..Len(m1.vox) |-> m1.vox[i] /\ m2.vox[i]]]

\* np.prod(spacing)
prod(spacing) == spacing[1] * spacing[2]

RECURSIVE Gcd(_, _)
Gcd(a, b) == IF b = 0 THEN a ELSE Gcd(b, a % b)

\* The float n / d of two integers, kept as the fraction in lowest terms: two
\* quotients are the same float exactly when these fractions are equal.
Quot(n, d) ==
    [nan |-> FALSE, num |-> n \div Gcd(n, d), den |-> d \div Gcd(n, d)]

\* np.nan
NaN == [nan |-> TRUE, num |-> 0, den |-> 1]

\* Mutant of compute_dice_coefficient: two empty masks give 0 instead of nan.
compute_dice_coefficient_ZeroWhenEmpty(mask_gt, mask_pred) ==
    LET volume_sum == MaskSum(mask_gt) + MaskSum(mask_pred)
    IN  IF volume_sum = 0 THEN Quot(0, 1)
        ELSE Quot(2 * MaskSum(MaskAnd(mask_gt, mask_pred)), volume_sum)

\* compute_dice_coefficient of the all-pairs engine.
compute_dice_coefficient(mask_gt, mask_pred) ==
    LET volume_sum == MaskSum(mask_gt) + MaskSum(mask_pred)
    IN  IF volume_sum = 0 THEN NaN
        ELSE Quot(2 * MaskSum(MaskAnd(mask_gt, mask_pred)), volume_sum)

\* The "dice" entry of compute_metrics of the consecutive engine.
dice_entry(m1, m2) ==
    IF MaskSum(m1) + MaskSum(m2) # 0
    THEN Quot(2 * MaskSum(MaskAnd(m1, m2)), MaskSum(m1) + MaskSum(m2))
    ELSE NaN

\* Row and column (from 0) of the k-th voxel of an array of the given shape.
RowOf(k, shape) == (k - 1) \div shape[2]
ColOf(k, shape) == (k - 1) % shape[2]

\* True at voxel k when the voxel at (r, c) is inside the array and in the mask;
\* outside the array the value is `border`.
At(m, r, c, border) ==
    IF r < 0 \/ r >= m.shape[1] \/ c < 0 \/ c >= m.shape[2] THEN border
    ELSE m.vox[r * m.shape[2] + c + 1]

\* ndimage.binary_erosion(mask) with a border value: a voxel stays when it and
\* its face neighbours (the default cross-shaped structure) are all set.
Erode(m, border) ==
    [shape |-> m.shape,
     vox |-> [k \in 1..Len(m.vox) |->
                LET r == RowOf(k, m.shape)
                    c == ColOf(k, m.shape)
                IN  /\ m.vox[k]
                    /\ At(m, r - 1, c, border) /\ At(m, r + 1, c, border)
                    /\ At(m, r, c - 1, border) /\ At(m, r, c + 1, border)]]

\* Mutant of binary_erosion: voxels outside the array count as set.
binary_erosion_BorderSet(m) == Erode(m, TRUE)

\* ndimage.binary_erosion(mask): border_value defaults to 0.
binary_erosion(m) == Erode(m, FALSE)

\* binary_erosion(mask) != mask
surface(m) ==
    [shape |-> m.shape,
     vox |-> [k \in 1..Len(m.vox) |-> binary_erosion(m).vox[k] # m.vox[k]]]

\* np.array(np.where(surface)).T * np.array(spacing): the scaled coordinates of
\* the surface voxels, in row-major order.
RECURSIVE PointsFrom(_, _, _)
PointsFrom(s, k, spacing) ==
    IF k > Len(s.vox) THEN <<>>
    ELSE (IF s.vox[k]
          THEN <<<<RowOf(k, s.shape) * spacing[1], ColOf(k, s.shape) * spacing[2]>>>>
          ELSE <<>>) \o PointsFrom(s, k + 1, spacing)

points(s, spacing) == PointsFrom(s, 1, spacing)

\* An entry of distances_matrix, squared: the square root is increasing, so a
\* distance is within a tolerance exactly when the squares are.
Dist2(p, q) == (p[1] - q[1]) * (p[1] - q[1]) + (p[2] - q[2]) * (p[2] - q[2])

\* np.min(distances_matrix, axis) for one point against the points of qs.
MinDist2(p, qs) ==
    LET ds == {Dist2(p, qs[j]) : j \in 1..Len(qs)}
    IN  CHOOSE d \in ds : \A x \in ds : d <= x

\* compute_surface_distances of the all-pairs module; None when a surface has
\* no voxel. The distances are kept squared.
compute_surface_distances(mask_gt, mask_pred, spacing) ==
    LET gt_points == points(surface(mask_gt), spacing)
        pred_points == points(surface(mask_pred), spacing)
    IN  IF Len(gt_points) = 0 \/ Len(pred_points) = 0
        THEN [none |-> TRUE, distances_gt_to_pred |-> <<>>, distances_pred_to_gt |-> <<>>]
        ELSE [none |-> FALSE,
              distances_gt_to_pred |->
                  [i \in 1..Len(gt_points) |-> MinDist2(gt_points[i], pred_points)],
              distances_pred_to_gt |->
                  [j \in 1..Len(pred_points) |-> MinDist2(pred_points[j], gt_points)]]

\* Number of entries of ds within the tolerance (surfel areas are all 1).
Within(ds, tolerance_mm) ==
    Cardinality({i \in 1..Len(ds) : ds[i] <= tolerance_mm * tolerance_mm})

\* Mutant of compute_surface_dice: only the first surface is counted.
compute_surface_dice_OneWay(surface_distances, tolerance_mm) ==
    IF surface_distances.none THEN Quot(0, 1)
    ELSE Quot(Within(surface_distances.distances_gt_to_pred, tolerance_mm),
              Len(surface_distances.distances_gt_to_pred))

\* compute_surface_dice of the all-pairs module: 0.0 for None.
compute_surface_dice(surface_distances, tolerance_mm) ==
    IF surface_distances.none THEN Quot(0, 1)
    ELSE Quot(Within(surface_distances.distances_gt_to_pred, tolerance_mm)
                + Within(surface_distances.distances_pred_to_gt, tolerance_mm),
              Len(surface_distances.distances_gt_to_pred)
                + Len(surface_distances.distances_pred_to_gt))

\* tolerance_mm=1.0
tolerance == 1

\* What the engines compute for one label of a pair of images of one shape:
\* the row entries of process_session_pair and of compute_metrics that do not
\* come from the surface_distance package, with the spacing of the first
\* image, and the surface distances and surface Dice of the module's own
\* functions.
Measure(a, b, label) ==
    LET mask1 == Mask(a, label)
        mask2 == Mask(b, label)
        spacing == a.zooms
        vol1 == MaskSum(mask1) * prod(spacing)
        vol2 == MaskSum(mask2) * prod(spacing)
        sd == compute_surface_distances(mask1, mask2, spacing)
    IN  [volume1 |-> vol1, volume2 |-> vol2, volume_diff |-> vol2 - vol1,
         dice |-> compute_dice_coefficient(mask1, mask2),
         dice_cons |-> dice_entry(mask1, mask2),
         surface_distances |-> sd,
         surface_dice |-> compute_surface_dice(sd, tolerance)]

\* ---------------------------------------------------------------- identity
\* "aparc.DKTatlas+aseg.mgz"
FREESURFER_APARC_FILE ==
    <<"a", "p", "a", "r", "c", ".", "D", "K", "T", "a", "t", "l", "a", "s",
    "+", "a", "s", "e", "g", ".", "m", "g", "z">>

\* "aparcDKT+aseg.mgz"
AparcDKT ==
    <<"a", "p", "a", "r", "c", "D", "K", "T", "+", "a", "s", "e", "g", ".",
    "m", "g", "z">>

\* "_aparcDKT+aseg.mgz"
FlatSuffix ==
    <<"_", "a", "p", "a", "r", "c", "D", "K", "T", "+", "a", "s", "e", "g",
    ".", "m", "g", "z">>

\* "sub-"
SubPrefix ==
    <<"s", "u", "b", "-">>

\* "ses-"
SesPrefix ==
    <<"s", "e", "s", "-">>

\* "_"
Underscore ==
    <<"_">>

\* "_ses-"
UnderscoreSes ==
    <<"_", "s", "e", "s", "-">>

\* ".long."
DotLong ==
    <<".", "l", "o", "n", "g", ".">>

\* "simon"
Simon ==
    <<"s", "i", "m", "o", "n">>

\* "long.simonBase_all_2025"
LongSimonBase ==
    <<"l", "o", "n", "g", ".", "s", "i", "m", "o", "n", "B", "a", "s", "e",
    "_", "a", "l", "l", "_", "2", "0", "2", "5">>

\* "/"
Anchor ==
    <<"/">>

\* "mri"
Mri ==
    <<"m", "r", "i">>

\* "d"
RootName ==
    <<"d">>

\* "grp"
Grp ==
    <<"g", "r", "p">>

\* "sub-01"
Sub01 ==
    <<"s", "u", "b", "-", "0", "1">>

\* "sub-02"
Sub02 ==
    <<"s", "u", "b", "-", "0", "2">>

\* "ses-siteATV"
SesSite ==
    <<"s", "e", "s", "-", "s", "i", "t", "e", "A", "T", "V">>

\* "ses-017.long.simonBase_all_2025"
RunSes017 ==
    <<"s", "e", "s", "-", "0", "1", "7", ".", "l", "o", "n", "g", ".", "s",
    "i", "m", "o", "n", "B", "a", "s", "e", "_", "a", "l", "l", "_", "2", "0",
    "2", "5">>

\* "sub-01_ses-siteATV.long.sub01_base_all_sites"
RunSub01Site ==
    <<"s", "u", "b", "-", "0", "1", "_", "s", "e", "s", "-", "s", "i", "t",
    "e", "A", "T", "V", ".", "l", "o", "n", "g", ".", "s", "u", "b", "0", "1",
    "_", "b", "a", "s", "e", "_", "a", "l", "l", "_", "s", "i", "t", "e",
    "s">>

\* "sub-01_T1_ses-1"
RunSub01T1 ==
    <<"s", "u", "b", "-", "0", "1", "_", "T", "1", "_", "s", "e", "s", "-",
    "1">>

\* "scan7.long.base"
RunScan ==
    <<"s", "c", "a", "n", "7", ".", "l", "o", "n", "g", ".", "b", "a", "s",
    "e">>

\* "brain.mgz"
BrainMgz ==
    <<"b", "r", "a", "i", "n", ".", "m", "g", "z">>

StartsWith(s, p) == Len(s) >= Len(p) /\ SubSeq(s, 1, Len(p)) = p

EndsWith(s, p) == Len(s) >= Len(p) /\ SubSeq(s, Len(s) - Len(p) + 1, Len(s)) = p

\* Positions at which p occurs in s.
Occurrences(s, p) ==
    {i \in 1..Len(s) : i + Len(p) - 1 <= Len(s) /\ SubSeq(s, i, i + Len(p) - 1) = p}

\* sep in s
Contains(s, sep) == Occurrences(s, sep) # {}

\* Mutant of SplitFirst: the string is cut at the last sep, as rsplit(sep, 1)[0].
SplitFirst_Last(s, sep) ==
    IF ~Contains(s, sep) THEN s
    ELSE LET i == CHOOSE k \in Occurrences(s, sep) : \A m \in Occurrences(s, sep) : k >= m
         IN  SubSeq(s, 1, i - 1)

\* s.split(sep)[0]: what precedes the first sep, all of s without one.
SplitFirst(s, sep) ==
    IF ~Contains(s, sep) THEN s
    ELSE LET i == CHOOSE k \in Occurrences(s, sep) : \A m \in Occurrences(s, sep) : k <= m
         IN  SubSeq(s, 1, i - 1)

\* A path is the sequence of its parts, the anchor "/" first. Name of the
\* ancestor `up` levels above the last part; the name of "/" is empty, and the
\* parent of "/" is "/".
NameAbove(path, up) ==
    IF Len(path) - up >= 2 THEN path[Len(path) - up] ELSE <<>>

Resolved(subject, session) == [indexed |-> TRUE, subject |-> subject, session |-> session]

NotIndexed == [indexed |-> FALSE, subject |-> <<>>, session |-> <<>>]

\* is_long_path
is_long_path(path) ==
    IF Len(path) < 3 THEN FALSE ELSE Contains(path[Len(path) - 2], DotLong)

\* Mutant of parse_subject_session: no branch for names starting with ses-.
parse_subject_session_NoSesBranch(run_dir) ==
    IF StartsWith(run_dir, SubPrefix)
    THEN Resolved(SplitFirst(run_dir, Underscore), run_dir)
    ELSE Resolved(SplitFirst(run_dir, DotLong), run_dir)

\* parse_subject_session of the all-pairs engine.
parse_subject_session(run_dir) ==
    IF StartsWith(run_dir, SubPrefix)
    THEN Resolved(SplitFirst(run_dir, Underscore), run_dir)
    ELSE IF StartsWith(run_dir, SesPrefix)
         THEN Resolved(Simon, run_dir)
         ELSE Resolved(SplitFirst(run_dir, DotLong), run_dir)

\* One file of the walk of calculate_session_metrics: whether it enters
\* subject_files, and under which subject and session.
index_entry(path, subjects, longOnly) ==
    IF path[Len(path)] # FREESURFER_APARC_FILE THEN NotIndexed
    ELSE IF longOnly /\ ~is_long_path(path) THEN NotIndexed
    ELSE LET r == parse_subject_session(NameAbove(path, 2))
         IN  IF subjects # {} /\ r.subject \notin subjects THEN NotIndexed ELSE r

\* Length of the longest run of characters other than "_" of s from position i.
RECURSIVE TokenRun(_, _)
TokenRun(s, i) ==
    IF i <= Len(s) /\ s[i] # "_" THEN 1 + TokenRun(s, i + 1) ELSE 0

\* re.match(r"(sub-[^_]+)_(ses-[^_]+)_aparcDKT\+aseg\.mgz", name): the two
\* groups when the name begins that way. [^_]+ takes every character up to the
\* next "_" and needs at least one.
flat_match(name) ==
    LET n1 == TokenRun(name, 5)
        u == 5 + n1
        n2 == TokenRun(name, u + 5)
        v == u + 5 + n2
    IN  IF /\ StartsWith(name, SubPrefix) /\ n1 >= 1
           /\ u + 4 <= Len(name) /\ SubSeq(name, u, u + 4) = UnderscoreSes
           /\ n2 >= 1
           /\ StartsWith(SubSeq(name, v, Len(name)), FlatSuffix)
        THEN [ok |-> TRUE, subject |-> SubSeq(name, 1, u - 1),
              session |-> SubSeq(name, u + 1, v - 1)]
        ELSE [ok |-> FALSE, subject |-> <<>>, session |-> <<>>]

\* args.aparc_names, the default.
aparc_names == {FREESURFER_APARC_FILE, AparcDKT}

\* Subject and session from the directories, lines 73 to 82.
from_directories(path) ==
    LET run_dir == NameAbove(path, 2)
        parent_dir == IF Len(path) >= 4 THEN NameAbove(path, 3) ELSE <<>>
    IN  IF StartsWith(run_dir, SesPrefix) THEN Resolved(LongSimonBase, run_dir)
        ELSE IF StartsWith(run_dir, SubPrefix)
             THEN Resolved(SplitFirst(run_dir, UnderscoreSes), run_dir)
             ELSE Resolved(parent_dir, run_dir)

\* Mutant of found_entry: the file name is consulted only when the run
\* directory names neither a subject nor a session.
found_entry_DirectoriesFirst(path, subjects) ==
    IF ~(path[Len(path)] \in aparc_names \/ EndsWith(path[Len(path)], FlatSuffix))
    THEN NotIndexed
    ELSE LET m == flat_match(path[Len(path)])
             named == StartsWith(NameAbove(path, 2), SesPrefix)
                        \/ StartsWith(NameAbove(path, 2), SubPrefix)
             r == IF m.ok /\ ~named THEN Resolved(m.subject, m.session)
                  ELSE from_directories(path)
         IN  IF subjects # {} /\ r.subject \notin subjects THEN NotIndexed ELSE r

\* One file of the walk of find_segmentations: whether it is appended to
\* found, and with which subject and session.
found_entry(path, subjects) ==
    IF ~(path[Len(path)] \in aparc_names \/ EndsWith(path[Len(path)], FlatSuffix))
    THEN NotIndexed
    ELSE LET m == flat_match(path[Len(path)])
             r == IF m.ok THEN Resolved(m.subject, m.session)
                  ELSE from_directories(path)
         IN  IF subjects # {} /\ r.subject \notin subjects THEN NotIndexed ELSE r

\* ---------------------------------------------------------------- writer
\* Mutant of HeaderWrittenAtStart: the flag starts false whatever is on disk.
HeaderWrittenAtStart_AlwaysFalse(exists) == FALSE

\* header_written = results_path.exists()
HeaderWrittenAtStart(exists) == exists

\* Mutant of CsvLines: no call emits the header, as with header=False.
CsvLines_NoHeader(headerWritten, rows) == rows

\* Mutant of CsvLines: every call emits the header.
CsvLines_HeaderEveryCall(headerWritten, rows) == <<Header>> \o rows

\* df.to_csv(path, header=not header_written): the lines one call emits.
CsvLines(headerWritten, rows) ==
    (IF headerWritten THEN <<>> ELSE <<Header>>) \o rows

\* Mutant of AppendMode: lines the file already holds are not written again.
AppendMode_SkipPresent(old, lines) ==
    LET New(l) == \A i \in 1..Len(old) : old[i] # l
    IN  old \o SelectSeq(lines, New)

\* Mutant of AppendMode: the file is opened for writing, not for appending.
AppendMode_Truncating(old, lines) == lines

\* to_csv(mode="a"): the file after the call.
AppendMode(old, lines) == old \o lines

\* to_csv() with the default mode="w": the file after the call.
WriteMode(old, lines) == lines

\* Mutant of Extend: the new rows go in front of the buffered ones.
Extend_AtFront(buf, rows) == rows \o buf

\* buffer.extend(session_results) / rows.append(r) for each r.
Extend(buf, rows) == buf \o rows

\* Mutant of Cleared: the buffer keeps its rows after a flush.
Cleared_Kept(buf) == buf

\* buffer.clear()
Cleared(buf) == <<>>

\* Mutant of FlushNeeded: the threshold is compared with > instead of >=.
FlushNeeded_Strict(n, chunk) == n > chunk

\* if len(buffer) >= chunk_size
FlushNeeded(n, chunk) == n >= chunk

\* Mutant of Writer: header_written is not declared nonlocal, the flag of
\* calculate_session_metrics is never set.
Writer_FlagNotSet(rows) ==
    IF rows = <<>>
    THEN UNCHANGED <<dest, destExists, header_written, passed>>
    ELSE /\ dest' = AppendMode(dest, CsvLines(header_written, rows))
         /\ destExists' = TRUE
         /\ header_written' = header_written
         /\ passed' = Append(passed, Len(rows))

\* writer(rows) of calculate_session_metrics.
Writer(rows) ==
    IF rows = <<>>
    THEN UNCHANGED <<dest, destExists, header_written, passed>>
    ELSE /\ dest' = AppendMode(dest, CsvLines(header_written, rows))
         /\ destExists' = TRUE
         /\ header_written' = TRUE
         /\ passed' = Append(passed, Len(rows))

\* ---------------------------------------------------------------- inputs
Ses1 == <<"s", "e", "s", "-", "1">>
Ses2 == <<"s", "e", "s", "-", "2">>
Ses10 == <<"s", "e", "s", "-", "1", "0">>
Ses01 == <<"s", "e", "s", "-", "0", "1">>
SesA == <<"s", "e", "s", "-", "A">>

Seg(subject, session, path) ==
    [subject |-> subject, session |-> session, path |-> path]

Vol(shape, vox) == [shape |-> shape, vox |-> vox]

\* Two subjects, three and two sessions.
RunFiles ==
    {Seg("sub-01", Ses1, "a1"), Seg("sub-01", Ses2, "a2"), Seg("sub-01", Ses10, "a3"),
     Seg("sub-02", Ses1, "b1"), Seg("sub-02", Ses2, "b2")}

\* One subject, sessions with equal numeric tokens and a non-numeric one.
PairFiles ==
    {Seg("simon", Ses1, "p1"), Seg("simon", Ses2, "p2"), Seg("simon", Ses10, "p3"),
     Seg("simon", Ses01, "p4"), Seg("simon", SesA, "p5")}

Paths == {f.path : f \in RunFiles \cup PairFiles}

\* File contents. SameGrid: every volume on one grid. MixedGrid: a1 and b2 on
\* other grids than the rest, a2 and a3 all background.
SameGrid ==
    [p \in Paths |->
        CASE p = "a1" -> Vol(<<2, 1>>, <<2, 0>>)
          [] p = "a2" -> Vol(<<2, 1>>, <<1, 0>>)
          [] p = "a3" -> Vol(<<2, 1>>, <<1, 1>>)
          [] p = "b1" -> Vol(<<2, 1>>, <<2, 2>>)
          [] p = "b2" -> Vol(<<2, 1>>, <<2, 0>>)
          [] p = "p5" -> Vol(<<3, 1>>, <<1, 0, 0>>)
          [] OTHER -> Vol(<<2, 1>>, <<1, 0>>)]

MixedGrid ==
    [p \in Paths |->
        CASE p = "a1" -> Vol(<<3, 1>>, <<1, 0, 0>>)
          [] p = "a2" -> Vol(<<2, 1>>, <<0, 0>>)
          [] p = "a3" -> Vol(<<2, 1>>, <<0, 0>>)
          [] p = "b1" -> Vol(<<2, 1>>, <<0, 0>>)
          [] p = "b2" -> Vol(<<2, 2>>, <<0, 0, 0, 0>>)
          [] p = "p5" -> Vol(<<3, 1>>, <<1, 0, 0>>)
          [] OTHER -> Vol(<<2, 1>>, <<1, 0>>)]

\* BadFile: as SameGrid, but the file of sub-01's ses-2 cannot be read.
BadFile == [p \in Paths |-> IF p = "a2" THEN Unreadable ELSE SameGrid[p]]

\* os.walk lists a directory in no fixed order: every order in which the files
\* of S can be discovered.
RECURSIVE Orders(_)
Orders(S) ==
    IF S = {} THEN {<<>>}
    ELSE UNION {{<<x>> \o q : q \in Orders(S \ {x})} : x \in S}

\* The indexes the traversal orders of S lead to.
Indexes(S) == {BuildIndex(<<>>, order) : order \in Orders(S)}

\* A table left by an earlier, unrelated use of the destination.
OldRow == Row("old", Ses1, Ses2, 1)

DestStates ==
    {[exists |-> FALSE, lines |-> <<>>],
     [exists |-> TRUE, lines |-> <<>>],
     [exists |-> TRUE, lines |-> <<Header, OldRow>>]}

\* Images of one 3 x 3 grid: labels 1 and 2 as blocks, columns and single
\* voxels, with and without an inner voxel, touching, apart and overlapping.
Patterns ==
    <<<<0, 0, 0, 0, 0, 0, 0, 0, 0>>,
      <<1, 1, 1, 1, 1, 1, 1, 1, 1>>,
      <<0, 0, 0, 0, 1, 0, 0, 0, 0>>,
      <<1, 0, 0, 1, 0, 0, 1, 0, 0>>,
      <<0, 1, 0, 0, 1, 0, 0, 1, 0>>,
      <<0, 0, 1, 0, 0, 1, 0, 0, 1>>,
      <<1, 0, 1, 1, 0, 1, 1, 0, 1>>,
      <<1, 1, 2, 1, 1, 2, 1, 1, 2>>,
      <<1, 2, 2, 2, 2, 2, 2, 2, 2>>>>

Images ==
    {Image(<<3, 3>>, Patterns[i], <<z, 1>>) : i \in 1..Len(Patterns), z \in 1..MaxZoom}

NoImage == Image(<<>>, <<>>, <<>>)

\* The metric functions are not being exercised.
CalcIdle ==
    /\ img1 = NoImage /\ img2 = NoImage /\ lbl = 0
    /\ fwd = <<>> /\ bwd = <<>>

\* ---- files of the identity resolver
SubTokens == {Sub01, Sub02}

SesTokens == {SesSite, Ses1}

\* {subject}_{session}_aparcDKT+aseg.mgz
FlatName(subj, sess) == subj \o Underscore \o sess \o FlatSuffix

RunDirs == {RunSes017, Ses1, RunSub01Site, RunSub01T1, Sub01, RunScan}

FileNames ==
    {FREESURFER_APARC_FILE, AparcDKT, BrainMgz, FlatName(SubPrefix, Ses1)}
        \cup {FlatName(subj, sess) : subj \in SubTokens, sess \in SesTokens}

RECURSIVE Repeat(_, _)
Repeat(x, n) == IF n = 0 THEN <<>> ELSE <<x>> \o Repeat(x, n - 1)

\* The root and the directories between it and a run directory.
Above == {<<Anchor, RootName>> \o Repeat(Grp, k) : k \in 0..MaxParents}

\* Files in <run_dir>/mri/, in <run_dir>/ and next to the run directories.
FilePaths ==
    {a \o <<r, Mri, f>> : a \in Above, r \in RunDirs, f \in FileNames}
        \cup {a \o <<r, f>> : a \in Above, r \in RunDirs, f \in FileNames}
        \cup {a \o <<f>> : a \in Above, f \in FileNames}

\* args.subjects: not given, or one subject.
SubjectFilters == {{}, {Sub01}}

\* No file is being resolved.
IdentIdle ==
    /\ full = <<>> /\ subjects_arg = {} /\ long_only = FALSE
    /\ rall = <<>> /\ rcons = <<>>

\* No directory is being walked.
WalkIdle ==
    /\ tree = {} /\ max_depth = <<>> /\ todo = <<>> /\ found = <<>>

\* No concurrent writers.
DuoIdle == procs = <<>>

\* ---------------------------------------------------------------- machine
ProcessStart(d) ==
    /\ pc = "start"
    /\ header_written = FALSE
    /\ subject_files = <<>>
    /\ si = 1
    /\ ses_list = <<>>
    /\ session_pairs = <<>>
    /\ pi = 1
    /\ buffer = <<>>
    /\ startExists = d.exists
    /\ startDest = d.lines
    /\ passed = <<>>
    /\ produced = <<>>
    /\ evaluated = <<>>

Init ==
    /\ engine \in {"allpairs", "consecutive"}
    /\ files \in {S \in SUBSET RunFiles : Cardinality(S) <= MaxFiles}
    /\ vols \in {SameGrid, MixedGrid, BadFile}
    /\ chunk_size \in (IF engine = "allpairs" THEN 0..MaxChunk ELSE {0})
    /\ \E d \in DestStates :
          /\ destExists = d.exists
          /\ dest = d.lines
          /\ fresh0 = ~d.exists
          /\ ProcessStart(d)
    /\ run = 1
    /\ flushedBefore = FALSE
    /\ prevEnd = "none"
    /\ lut = <<>>
    /\ CalcIdle /\ IdentIdle /\ WalkIdle /\ DuoIdle

PairInit ==
    /\ engine \in {"allpairs", "consecutive"}
    /\ files \in {S \in SUBSET PairFiles : Cardinality(S) <= MaxPairFiles}
    /\ vols = SameGrid
    /\ chunk_size = (IF engine = "allpairs" THEN 1 ELSE 0)
    /\ destExists = FALSE
    /\ dest = <<>>
    /\ fresh0 = TRUE
    /\ ProcessStart([exists |-> FALSE, lines |-> <<>>])
    /\ run = 1
    /\ flushedBefore = FALSE
    /\ prevEnd = "none"
    /\ lut \in (IF engine = "consecutive" THEN {load_lut(a) : a \in LutArgs} ELSE {<<>>})
    /\ CalcIdle /\ IdentIdle /\ WalkIdle /\ DuoIdle

calc == <<img1, img2, lbl, fwd, bwd>>
ident == <<full, subjects_arg, long_only, rall, rcons>>
inputs == <<engine, files, vols, chunk_size, fresh0, lut>>
history == <<startExists, startDest, flushedBefore, prevEnd>>
walk == <<tree, max_depth, todo, found>>
duo == <<procs>>

CurSubject == subject_files[si][1]
CurSessions == subject_files[si][2]

\* calculate_session_metrics up to the subject loop: the index and the flag.
IndexAll ==
    /\ engine = "allpairs" /\ pc = "start"
    /\ subject_files' \in Indexes(files)
    /\ header_written' = HeaderWrittenAtStart(destExists)
    /\ pc' = "subjects"
    /\ UNCHANGED <<inputs, calc, ident, walk, duo, history, destExists, dest, si, ses_list, session_pairs, pi, buffer,
                   run, passed, produced, evaluated>>

\* main up to the subject loop: SystemExit when nothing was found.
IndexCons ==
    /\ engine = "consecutive" /\ pc = "start"
    /\ IF files = {}
       THEN pc' = "failed" /\ UNCHANGED subject_files
       ELSE pc' = "subjects" /\ subject_files' \in Indexes(files)
    /\ UNCHANGED <<inputs, calc, ident, walk, duo, history, destExists, dest, header_written, si,
                   ses_list, session_pairs, pi, buffer, run, passed, produced, evaluated>>

\* process_subject: session_list, session_pairs and an empty buffer.
BeginSubjectAll ==
    /\ engine = "allpairs" /\ pc = "subjects" /\ si <= Len(subject_files)
    /\ ses_list' = session_list(DictKeys(CurSessions))
    /\ session_pairs' = combinations(ses_list')
    /\ buffer' = <<>>
    /\ pi' = 1
    /\ pc' = "pairs"
    /\ UNCHANGED <<inputs, calc, ident, walk, duo, history, destExists, dest, header_written, subject_files,
                   si, run, passed, produced, evaluated>>

\* main: ses_sorted and its adjacent pairs.
BeginSubjectCons ==
    /\ engine = "consecutive" /\ pc = "subjects" /\ si <= Len(subject_files)
    /\ ses_list' = ses_sorted(DictKeys(CurSessions))
    /\ session_pairs' = pairwise(ses_list')
    /\ pi' = 1
    /\ pc' = "pairs"
    /\ UNCHANGED <<inputs, calc, ident, walk, duo, history, destExists, dest, header_written, subject_files,
                   si, buffer, run, passed, produced, evaluated>>

CurPair == session_pairs[pi]
CurVol1 == vols[DictGet(CurSessions, CurPair[1])]
CurVol2 == vols[DictGet(CurSessions, CurPair[2])]

\* One pass of process_subject's loop up to buffer.extend; an error raised by
\* process_session_pair is caught nowhere and ends the process.
PairAll ==
    /\ engine = "allpairs" /\ pc = "pairs" /\ pi <= Len(session_pairs)
    /\ LET res == process_session_pair(CurVol1, CurVol2)
           rows == Rows(CurSubject, CurPair, res.labels)
       IN  /\ evaluated' = Append(evaluated, <<CurSubject, CurPair[1], CurPair[2]>>)
           /\ IF res.raised
              THEN pc' = "failed" /\ UNCHANGED <<buffer, produced>>
              ELSE /\ pc' = "flush"
                   /\ buffer' = Extend(buffer, rows)
                   /\ produced' = produced \o rows
    /\ UNCHANGED <<inputs, calc, ident, walk, duo, history, destExists, dest, header_written, subject_files,
                   si, ses_list, session_pairs, pi, run, passed>>

\* The rest of the pass: if len(buffer) >= chunk_size, write and clear.
FlushAll ==
    /\ engine = "allpairs" /\ pc = "flush"
    /\ IF FlushNeeded(Len(buffer), chunk_size)
       THEN Writer(buffer) /\ buffer' = Cleared(buffer)
       ELSE UNCHANGED <<dest, destExists, header_written, passed, buffer>>
    /\ pi' = pi + 1
    /\ pc' = "pairs"
    /\ UNCHANGED <<inputs, calc, ident, walk, duo, history, subject_files, si, ses_list, session_pairs, run, produced,
                   evaluated>>

\* After the loop: if buffer, write it; process_subject returns, its buffer
\* goes out of scope, and the subject loop moves on.
EndSubjectAll ==
    /\ engine = "allpairs" /\ pc = "pairs" /\ pi > Len(session_pairs)
    /\ Writer(buffer)
    /\ buffer' = <<>>
    /\ si' = si + 1
    /\ pc' = "subjects"
    /\ UNCHANGED <<inputs, calc, ident, walk, duo, history, subject_files, ses_list, session_pairs, pi, run,
                   produced, evaluated>>

\* The subject loop is exhausted: the function returns.
FinishAll ==
    /\ engine = "allpairs" /\ pc = "subjects" /\ si > Len(subject_files)
    /\ pc' = "done"
    /\ UNCHANGED <<inputs, calc, ident, walk, duo, history, destExists, dest, header_written, subject_files,
                   si, ses_list, session_pairs, pi, buffer, run, passed, produced, evaluated>>

\* One pass of main's pair loop: a skipped pair, or its rows onto rows; an
\* error raised by compute_metrics is caught nowhere and ends the process.
PairCons ==
    /\ engine = "consecutive" /\ pc = "pairs" /\ pi <= Len(session_pairs)
    /\ LET res == compute_metrics(CurVol1, CurVol2, ArgsLabels)
           rows == Enriched(Rows(CurSubject, CurPair, res.labels), lut)
       IN  /\ evaluated' = Append(evaluated, <<CurSubject, CurPair[1], CurPair[2]>>)
           /\ IF res.raised
              THEN pc' = "failed" /\ UNCHANGED <<buffer, produced, pi>>
              ELSE /\ buffer' = Extend(buffer, rows)
                   /\ produced' = produced \o rows
                   /\ pi' = pi + 1
                   /\ pc' = pc
    /\ UNCHANGED <<inputs, calc, ident, walk, duo, history, destExists, dest, header_written,
                   subject_files, si, ses_list, session_pairs, run, passed>>

EndSubjectCons ==
    /\ engine = "consecutive" /\ pc = "pairs" /\ pi > Len(session_pairs)
    /\ si' = si + 1
    /\ pc' = "subjects"
    /\ UNCHANGED <<inputs, calc, ident, walk, duo, history, destExists, dest, header_written, subject_files,
                   ses_list, session_pairs, pi, buffer, run, passed, produced, evaluated>>

\* main after the loop: SystemExit without rows, else one to_csv of all rows.
FinishCons ==
    /\ engine = "consecutive" /\ pc = "subjects" /\ si > Len(subject_files)
    /\ IF buffer = <<>>
       THEN pc' = "failed" /\ UNCHANGED <<dest, destExists, passed>>
       ELSE /\ dest' = WriteMode(dest, CsvLines(FALSE, buffer))
            /\ destExists' = TRUE
            /\ passed' = Append(passed, Len(buffer))
            /\ pc' = "done"
    /\ UNCHANGED <<inputs, calc, ident, walk, duo, history, header_written, subject_files, si, ses_list, session_pairs,
                   pi, buffer, run, produced, evaluated>>

Ended == pc \in {"done", "failed", "stopped"}

\* The process is terminated from outside: its memory is gone, the file stays.
Stop ==
    /\ ~Ended
    /\ pc' = "stopped"
    /\ header_written' = FALSE
    /\ subject_files' = <<>>
    /\ si' = 1
    /\ ses_list' = <<>>
    /\ session_pairs' = <<>>
    /\ pi' = 1
    /\ buffer' = <<>>
    /\ produced' = <<>>
    /\ evaluated' = <<>>
    /\ UNCHANGED <<inputs, calc, ident, walk, duo, history, destExists, dest, run, passed>>

\* The engine is invoked again with the same arguments and destination.
Restart ==
    /\ Ended /\ run < MaxRuns
    /\ run' = run + 1
    /\ flushedBefore' = (flushedBefore \/ passed # <<>>)
    /\ prevEnd' = pc
    /\ pc' = "start"
    /\ header_written' = FALSE
    /\ subject_files' = <<>>
    /\ si' = 1
    /\ ses_list' = <<>>
    /\ session_pairs' = <<>>
    /\ pi' = 1
    /\ buffer' = <<>>
    /\ startExists' = destExists
    /\ startDest' = dest
    /\ passed' = <<>>
    /\ produced' = <<>>
    /\ evaluated' = <<>>
    /\ UNCHANGED <<inputs, calc, ident, walk, duo, destExists, dest>>

Next ==
    \/ IndexAll
    \/ IndexCons
    \/ BeginSubjectAll
    \/ BeginSubjectCons
    \/ PairAll
    \/ FlushAll
    \/ EndSubjectAll
    \/ FinishAll
    \/ PairCons
    \/ EndSubjectCons
    \/ FinishCons
    \/ Stop
    \/ Restart

Spec == Init /\ [][Next]_vars

PairSpec == PairInit /\ [][Next]_vars

\* The all-pairs engine alone, on files that can all be read and compared:
\* every run goes on until it completes or is stopped.
WriterInit ==
    /\ engine = "allpairs"
    /\ files \in {S \in SUBSET RunFiles : Cardinality(S) <= MaxFiles}
    /\ vols = SameGrid
    /\ chunk_size \in 0..MaxChunk
    /\ \E d \in DestStates :
          /\ destExists = d.exists
          /\ dest = d.lines
          /\ fresh0 = ~d.exists
          /\ ProcessStart(d)
    /\ run = 1
    /\ flushedBefore = FALSE
    /\ prevEnd = "none"
    /\ lut = <<>>
    /\ CalcIdle /\ IdentIdle /\ WalkIdle /\ DuoIdle

WriterNext ==
    \/ IndexAll
    \/ BeginSubjectAll
    \/ PairAll
    \/ FlushAll
    \/ EndSubjectAll
    \/ FinishAll
    \/ Stop
    \/ Restart

WriterSpec == WriterInit /\ [][WriterNext]_vars

\* ---------------------------------------------------------------- metric functions
\* No engine is running.
MachineIdle ==
    /\ engine = "allpairs" /\ files = {} /\ vols = SameGrid /\ chunk_size = 0
    /\ destExists = FALSE /\ dest = <<>> /\ fresh0 = TRUE
    /\ pc = "idle" /\ header_written = FALSE /\ subject_files = <<>> /\ si = 1
    /\ ses_list = <<>> /\ session_pairs = <<>> /\ pi = 1 /\ buffer = <<>>
    /\ run = 1 /\ startExists = FALSE /\ startDest = <<>>
    /\ flushedBefore = FALSE /\ prevEnd = "none"
    /\ passed = <<>> /\ produced = <<>> /\ evaluated = <<>>
    /\ lut = <<>>

machine == <<inputs, history, destExists, dest, header_written, pc, subject_files,
             si, ses_list, session_pairs, pi, buffer, run, passed, produced, evaluated>>

\* Two images of one shape and a label, nothing computed yet.
MetricInit ==
    /\ MachineIdle
    /\ img1 \in Images /\ img2 \in Images
    /\ lbl \in 1..MaxLabel
    /\ fwd = <<>> /\ bwd = <<>>
    /\ IdentIdle /\ WalkIdle /\ DuoIdle

\* The label's metrics for the pair (img1, img2).
Compare ==
    /\ pc = "idle" /\ fwd = <<>>
    /\ fwd' = <<Measure(img1, img2, lbl)>>
    /\ UNCHANGED <<machine, ident, walk, duo, img1, img2, lbl, bwd>>

\* The label's metrics for the pair taken the other way round, (img2, img1).
CompareSwapped ==
    /\ pc = "idle" /\ bwd = <<>>
    /\ bwd' = <<Measure(img2, img1, lbl)>>
    /\ UNCHANGED <<machine, ident, walk, duo, img1, img2, lbl, fwd>>

MetricNext == Compare \/ CompareSwapped

MetricSpec == MetricInit /\ [][MetricNext]_vars

\* ---------------------------------------------------------------- identity resolver
\* One file found by the walk, the arguments, nothing resolved yet.
ResolveInit ==
    /\ MachineIdle /\ CalcIdle
    /\ full \in FilePaths
    /\ subjects_arg \in SubjectFilters
    /\ long_only \in BOOLEAN
    /\ rall = <<>> /\ rcons = <<>>
    /\ WalkIdle /\ DuoIdle

\* The all-pairs engine meets the file.
ResolveAll ==
    /\ pc = "idle" /\ full # <<>> /\ rall = <<>>
    /\ rall' = <<index_entry(full, subjects_arg, long_only)>>
    /\ UNCHANGED <<machine, calc, walk, duo, full, subjects_arg, long_only, rcons>>

\* The consecutive engine meets the file.
ResolveCons ==
    /\ pc = "idle" /\ full # <<>> /\ rcons = <<>>
    /\ rcons' = <<found_entry(full, subjects_arg)>>
    /\ UNCHANGED <<machine, calc, walk, duo, full, subjects_arg, long_only, rall>>

ResolveNext == ResolveAll \/ ResolveCons

ResolveSpec == ResolveInit /\ [][ResolveNext]_vars

\* ---------------------------------------------------------------- directory walk
\* The root directory given to os.walk, "/d".
Root == <<Anchor, RootName>>

\* "sub-01_ses-1"
RunSub01Ses1 == Sub01 \o Underscore \o Ses1

\* Segmentation files below the root: two names in one mri directory, the
\* same run directory again one level further down, a ses- run directory, and
\* two flat names for one subject and session.
TreeFiles ==
    {Root \o <<RunSub01Ses1, Mri, FREESURFER_APARC_FILE>>,
     Root \o <<RunSub01Ses1, Mri, AparcDKT>>,
     Root \o <<Grp, RunSub01Ses1, Mri, FREESURFER_APARC_FILE>>,
     Root \o <<Ses1, Mri, FREESURFER_APARC_FILE>>,
     Root \o <<FlatName(Sub02, Ses1)>>,
     Root \o <<Grp, FlatName(Sub02, Ses1)>>}

\* args.max_depth: None, or a number of levels.
DepthLimits == {<<>>} \cup {<<d>> : d \in 0..MaxDepth}

\* Path(dirpath) / f for the directory of a file.
DirOf(f) == SubSeq(f, 1, Len(f) - 1)

\* The directories of the tree t, the root among them.
DirsOf(t) ==
    {Root} \cup UNION {{SubSeq(f, 1, k) : k \in Len(Root)..(Len(f) - 1)} : f \in t}

\* dirs and files as os.walk yields them for dirpath.
SubDirs(t, dirpath) ==
    {x \in DirsOf(t) : Len(x) = Len(dirpath) + 1 /\ DirOf(x) = dirpath}

FilesIn(t, dirpath) == {f \in t : DirOf(f) = dirpath}

\* len(Path(dirpath).parts) - base_depth
Depth(dirpath) == Len(dirpath) - Len(Root)

\* Mutant of DepthReached: the depth is compared with > instead of >=.
DepthReached_Strict(depth, limit) == limit # <<>> /\ depth > limit[1]

\* max_depth is not None and depth >= max_depth
DepthReached(depth, limit) == limit # <<>> /\ depth >= limit[1]

\* The files of one directory, in listing order, that the engine accepts, as
\* (subject, session, path).
RECURSIVE Accepted(_, _, _, _)
Accepted(eng, paths, subjects, longOnly) ==
    IF paths = <<>> THEN <<>>
    ELSE LET f == Head(paths)
             r == IF eng = "allpairs" THEN index_entry(f, subjects, longOnly)
                  ELSE found_entry(f, subjects)
         IN  (IF r.indexed THEN <<Seg(r.subject, r.session, f)>> ELSE <<>>)
                 \o Accepted(eng, Tail(paths), subjects, longOnly)

\* A tree, the arguments, and os.walk about to yield the root.
WalkInit ==
    /\ engine \in {"allpairs", "consecutive"}
    /\ files = {} /\ vols = SameGrid /\ chunk_size = 0
    /\ destExists = FALSE /\ dest = <<>> /\ fresh0 = TRUE
    /\ pc = "walk" /\ header_written = FALSE /\ subject_files = <<>> /\ si = 1
    /\ ses_list = <<>> /\ session_pairs = <<>> /\ pi = 1 /\ buffer = <<>>
    /\ run = 1 /\ startExists = FALSE /\ startDest = <<>>
    /\ flushedBefore = FALSE /\ prevEnd = "none"
    /\ passed = <<>> /\ produced = <<>> /\ evaluated = <<>>
    /\ lut = <<>>
    /\ CalcIdle /\ DuoIdle
    /\ full = <<>> /\ rall = <<>> /\ rcons = <<>> /\ long_only = FALSE
    /\ subjects_arg \in SubjectFilters
    /\ tree \in SUBSET TreeFiles
    /\ max_depth \in (IF engine = "consecutive" THEN DepthLimits ELSE {<<>>})
    /\ todo = <<Root>>
    /\ found = <<>>

walked == <<inputs, history, calc, duo, destExists, dest, header_written, si, ses_list,
            session_pairs, pi, buffer, run, passed, produced, evaluated, full,
            subjects_arg, long_only, rall, rcons, tree, max_depth>>

\* os.walk(FREESURFER_DIR) yields one directory: its sub-directories are
\* queued in listing order, its files named aparc.DKTatlas+aseg.mgz collected.
WalkDirAll ==
    /\ engine = "allpairs" /\ pc = "walk" /\ todo # <<>>
    /\ LET dirpath == Head(todo)
       IN  \E dirs \in Orders(SubDirs(tree, dirpath)),
              names \in Orders(FilesIn(tree, dirpath)) :
               /\ todo' = dirs \o Tail(todo)
               /\ found' = found \o Accepted(engine, names, subjects_arg, long_only)
    /\ UNCHANGED <<walked, pc, subject_files>>

\* os.walk(root) yields one directory to find_segmentations: at the depth
\* limit dirs is emptied, and the directory's files are still looked at.
WalkDirCons ==
    /\ engine = "consecutive" /\ pc = "walk" /\ todo # <<>>
    /\ LET dirpath == Head(todo)
           below == IF DepthReached(Depth(dirpath), max_depth) THEN {}
                    ELSE SubDirs(tree, dirpath)
       IN  \E dirs \in Orders(below), names \in Orders(FilesIn(tree, dirpath)) :
               /\ todo' = dirs \o Tail(todo)
               /\ found' = found \o Accepted(engine, names, subjects_arg, long_only)
    /\ UNCHANGED <<walked, pc, subject_files>>

\* subject_files.setdefault(subject, {})[session] = dkt_file for each file.
IndexFoundAll ==
    /\ engine = "allpairs" /\ pc = "walk" /\ todo = <<>>
    /\ subject_files' = BuildIndex(<<>>, found)
    /\ pc' = "indexed"
    /\ UNCHANGED <<walked, todo, found>>

\* SystemExit without segmentations, else
\* by_subj.setdefault(subj, {})[sess] = path for each of them.
IndexFoundCons ==
    /\ engine = "consecutive" /\ pc = "walk" /\ todo = <<>>
    /\ IF found = <<>>
       THEN pc' = "failed" /\ UNCHANGED subject_files
       ELSE pc' = "indexed" /\ subject_files' = BuildIndex(<<>>, found)
    /\ UNCHANGED <<walked, todo, found>>

WalkNext == WalkDirAll \/ WalkDirCons \/ IndexFoundAll \/ IndexFoundCons

WalkSpec == WalkInit /\ [][WalkNext]_vars

\* ---------------------------------------------------------------- concurrent writers
\* Two processes of the all-pairs engine started on one destination, one per
\* subject (--subjects). Each has its own header_written; the file is shared.
\* One to_csv call is taken as one indivisible append.
Procs == {1, 2}

SubjectOf(p) == IF p = 1 THEN "sub-01" ELSE "sub-02"

\* The non-empty chunks process p will hand to its writer, n of them.
Chunks(p, n) == [k \in 1..n |-> <<Row(SubjectOf(p), Ses1, Ses2, k)>>]

DuoInit ==
    /\ MachineIdle /\ CalcIdle /\ IdentIdle /\ WalkIdle
    /\ \E n1 \in 1..MaxWrites, n2 \in 1..MaxWrites :
          procs = [p \in Procs |->
                      [pc |-> "start", header_written |-> FALSE,
                       left |-> Chunks(p, IF p = 1 THEN n1 ELSE n2)]]

\* Process p reaches header_written = results_path.exists().
DuoIndex(p) ==
    /\ procs[p].pc = "start"
    /\ procs' = [procs EXCEPT ![p].pc = "subjects",
                              ![p].header_written = HeaderWrittenAtStart(destExists)]
    /\ UNCHANGED <<machine, calc, ident, walk>>

\* Process p's writer is called with its next chunk.
DuoWrite(p) ==
    /\ procs[p].pc = "subjects" /\ procs[p].left # <<>>
    /\ dest' = AppendMode(dest, CsvLines(procs[p].header_written, Head(procs[p].left)))
    /\ destExists' = TRUE
    /\ procs' = [procs EXCEPT ![p].header_written = TRUE,
                              ![p].left = Tail(procs[p].left)]
    /\ UNCHANGED <<inputs, history, calc, ident, walk, header_written, pc, subject_files,
                   si, ses_list, session_pairs, pi, buffer, run, passed, produced,
                   evaluated>>

\* Process p has no subject left and returns.
DuoFinish(p) ==
    /\ procs[p].pc = "subjects" /\ procs[p].left = <<>>
    /\ procs' = [procs EXCEPT ![p].pc = "done"]
    /\ UNCHANGED <<machine, calc, ident, walk>>

DuoNext == \E p \in Procs : DuoIndex(p) \/ DuoWrite(p) \/ DuoFinish(p)

DuoSpec == DuoInit /\ [][DuoNext]_vars

\* ---------------------------------------------------------------- properties
HeaderCount(lines) == Cardinality({i \in 1..Len(lines) : lines[i].kind = "header"})

DataCount(lines) == Cardinality({i \in 1..Len(lines) : lines[i].kind = "row"})

RECURSIVE Sum(_)
Sum(q) == IF q = <<>> THEN 0 ELSE Head(q) + Sum(Tail(q))

IsPrefix(p, q) == Len(p) <= Len(q) /\ SubSeq(q, 1, Len(p)) = p

\* C1: in the all-pairs engine, when the destination did not exist at startup,
\* after any non-empty chunk writes of the run the file holds exactly one header
\* line, it is the first line, and the data rows number the rows passed to writer.
C1_OneHeaderFreshDestination ==
    (engine = "allpairs" /\ ~startExists /\ passed # <<>>) =>
        /\ HeaderCount(dest) = 1
        /\ dest[1] = Header
        /\ DataCount(dest) = Sum(passed)
        /\ Len(dest) = 1 + Sum(passed)

\* Chunks of sizes 2, 2, 1 were written to a destination absent at startup.
C1_Witness ==
    engine = "allpairs" /\ ~startExists /\ passed = <<2, 2, 1>>

Max(a, b) == IF a > b THEN a ELSE b

\* Rows computed by the all-pairs engine and not yet written.
Unflushed == IF engine = "allpairs" /\ pc \in {"pairs", "flush"} THEN Len(buffer) ELSE 0

\* Rows the pair just evaluated put into the buffer (pc = "flush").
LastPairRows == Len(process_session_pair(CurVol1, CurVol2).labels)

\* C3 as stated: at every point of a run of the all-pairs engine at most
\* chunk_size computed rows are unwritten (taken for chunk sizes of 1 or more).
C3_Original == chunk_size >= 1 => Unflushed <= chunk_size

\* C3 amended: after each pair's flush check fewer than chunk_size rows (none
\* when chunk_size <= 0) are unwritten; in between, at most that many plus the
\* rows of the pair just evaluated.
C3_UnflushedBound ==
    engine = "allpairs" =>
        /\ pc = "pairs" => Len(buffer) <= Max(chunk_size - 1, 0)
        /\ pc = "flush" => Len(buffer) <= Max(chunk_size - 1, 0) + LastPairRows

\* A pair has put more rows into the buffer than chunk_size, before any check.
C3_Witness ==
    engine = "allpairs" /\ pc = "flush" /\ chunk_size >= 1 /\ Len(buffer) > chunk_size

\* Lines this invocation has put into the destination.
WrittenThisRun ==
    IF engine = "allpairs"
    THEN SubSeq(dest, Len(startDest) + 1, Len(dest))
    ELSE IF passed # <<>> THEN dest ELSE <<>>

IsRow(line) == line.kind = "row"

\* C4: the data rows an invocation has written are, in file order, a prefix of
\* the rows in their order of production, whatever the flush boundaries, and
\* the rows of one subject are contiguous in the file. (A stopped process keeps
\* no record of what it produced; stopping leaves the file as it was.)
C4_FifoOrder ==
    LET new == SelectSeq(WrittenThisRun, IsRow)
    IN  /\ pc # "stopped" => IsPrefix(new, produced)
        /\ \A i, k \in 1..Len(new) :
               (i < k /\ new[i].subject = new[k].subject) =>
                   new[i + 1].subject = new[i].subject

\* The invocation has written rows of two subjects, in more than one chunk,
\* onto a table that was there before.
C4_Witness ==
    /\ engine = "allpairs" /\ Len(passed) >= 2 /\ startDest # <<>>
    /\ \E i, j \in 1..Len(WrittenThisRun) :
          /\ IsRow(WrittenThisRun[i]) /\ IsRow(WrittenThisRun[j])
          /\ WrittenThisRun[i].subject # WrittenThisRun[j].subject

Perms(q) ==
    {r \in [1..Len(q) -> SeqToSet(q)] : \A i, j \in 1..Len(q) : r[i] = r[j] => i = j}

\* The pairs an engine selects for a subject when the files come in order q.
PairsSelected(eng, q, subject) ==
    LET keys == DictKeys(DictGet(BuildIndex(<<>>, q), subject))
    IN  IF eng = "allpairs" THEN combinations(session_list(keys))
        ELSE pairwise(ses_sorted(keys))

Unordered(pairs) == {{pairs[i][1], pairs[i][2]} : i \in 1..Len(pairs)}

\* C6 as stated: the set of pairs selected for a subject is the same for every
\* order in which the same segmentation files are discovered.
C6_Original ==
    pc = "pairs" =>
        \A r \in Orders(files) :
            Unordered(PairsSelected(engine, r, CurSubject)) = Unordered(session_pairs)

\* The pairs of a subject among the evaluated ones, in evaluation order.
EvaluatedOf(subject) ==
    LET Mine(e) == e[1] = subject
        mine == SelectSeq(evaluated, Mine)
    IN  [i \in 1..Len(mine) |-> <<mine[i][2], mine[i][3]>>]

\* Pairs of the current subject evaluated so far, by the loop position.
EvalCount == IF pc \in {"flush", "failed"} THEN pi ELSE pi - 1

SessionSet == SeqToSet(DictKeys(CurSessions))

\* C7: in the consecutive engine, for sessions s1..sn in sorted order the pairs
\* are exactly (s_i, s_{i+1}), i = 1..n-1, evaluated in that order and no other
\* pair; none when n < 2.
C7_ConsecutivePairs ==
    engine = "consecutive" =>
        /\ pc = "pairs" =>
             /\ SeqToSet(ses_list) = SessionSet
             /\ Len(ses_list) = Cardinality(SessionSet)
             /\ Len(session_pairs) = Max(Len(ses_list) - 1, 0)
             /\ \A i \in 1..Len(session_pairs) :
                    session_pairs[i] = <<ses_list[i], ses_list[i + 1]>>
             /\ EvaluatedOf(CurSubject) = SubSeq(session_pairs, 1, pi - 1)
        /\ (pc \in {"subjects", "done"} /\ si > 1) =>
               EvaluatedOf(subject_files[si - 1][1]) = session_pairs

\* Four sessions: the three adjacent pairs were evaluated and the subject is done.
C7_Witness ==
    /\ engine = "consecutive" /\ pc = "subjects" /\ si > 1
    /\ Len(ses_list) = 4 /\ Len(evaluated) = 3

\* C8: in the all-pairs engine, for n sessions the selected pairs are the
\* n(n-1)/2 unordered pairs of distinct sessions, each exactly once and none
\* with itself; they are evaluated in list order, each once, all of them when
\* the subject completes.
C8_AllPairs ==
    engine = "allpairs" =>
        /\ pc \in {"pairs", "flush", "failed"} =>
             /\ SeqToSet(ses_list) = SessionSet
             /\ Len(ses_list) = Cardinality(SessionSet)
             /\ 2 * Len(session_pairs) = Len(ses_list) * (Len(ses_list) - 1)
             /\ \A i \in 1..Len(session_pairs) :
                    /\ session_pairs[i][1] # session_pairs[i][2]
                    /\ {session_pairs[i][1], session_pairs[i][2]} \subseteq SessionSet
             /\ \A a, b \in SessionSet :
                    a # b =>
                        Cardinality({i \in 1..Len(session_pairs) :
                            {session_pairs[i][1], session_pairs[i][2]} = {a, b}}) = 1
             /\ EvaluatedOf(CurSubject) = SubSeq(session_pairs, 1, EvalCount)
        /\ (pc \in {"subjects", "done"} /\ si > 1) =>
               EvaluatedOf(subject_files[si - 1][1]) = session_pairs

\* Four sessions: all six pairs were evaluated and the subject is done.
C8_Witness ==
    /\ engine = "allpairs" /\ pc = "subjects" /\ si > 1
    /\ Len(ses_list) = 4 /\ Len(evaluated) = 6

HasNumber(s) == SesMatches(s) # {}

\* C9 as stated: in ses_sorted the sessions with a numeric token after ses- come
\* before those without, the former by the integer value of the token, the
\* latter lexicographically, and the result is one total order: the same list
\* whatever order the identifiers were given in.
C9_Original ==
    (engine = "consecutive" /\ pc = "pairs") =>
        /\ \A i, j \in 1..Len(ses_list) :
               i < j =>
                   /\ HasNumber(ses_list[j]) => HasNumber(ses_list[i])
                   /\ (HasNumber(ses_list[i]) /\ HasNumber(ses_list[j])) =>
                          session_sort_key(ses_list[i])[2] <= session_sort_key(ses_list[j])[2]
                   /\ (~HasNumber(ses_list[i]) /\ ~HasNumber(ses_list[j])) =>
                          StrLess(ses_list[i], ses_list[j])
        /\ \A r \in Perms(DictKeys(CurSessions)) : ses_sorted(r) = ses_list

\* The loaded arrays of an evaluated pair <<subject, ses1, ses2>>.
EvalVol(e, k) == vols[DictGet(DictGet(subject_files, e[1]), e[k + 1])]

ShapeMismatch(e) == EvalVol(e, 1).shape # EvalVol(e, 2).shape

\* The run ended inside the pair loop, at the pair evaluated last.
FailedAtPair == pc = "failed" /\ pi <= Len(session_pairs)

\* C10 as stated: in both engines a pair whose volumes differ in shape produces
\* no rows and does not end the run, which goes on to the later pairs.
C10_Original ==
    \A n \in 1..Len(evaluated) :
        ShapeMismatch(evaluated[n]) =>
            /\ \A k \in 1..Len(produced) :
                   <<produced[k].subject, produced[k].session1, produced[k].session2>>
                       # evaluated[n]
            /\ ~(FailedAtPair /\ n = Len(evaluated))

\* ---- failures
SubjectAt(j) == subject_files[j][1]

\* The pairs the running engine selects for the j-th subject of the index.
PairsOf(j) ==
    LET keys == DictKeys(subject_files[j][2])
    IN  IF engine = "allpairs" THEN combinations(session_list(keys))
        ELSE pairwise(ses_sorted(keys))

\* Rows of the computed ones that belong to a subject.
RowsOf(subject) ==
    LET Mine(r) == r.subject = subject
    IN  SelectSeq(produced, Mine)

InDest(r) == \E i \in 1..Len(dest) : dest[i] = r

\* C11 as stated: when processing a subject has failed, the run still evaluates
\* every session pair of every other subject and writes their rows.
C11_Original ==
    FailedAtPair =>
        \A j \in 1..Len(subject_files) :
            j # si =>
                /\ EvaluatedOf(SubjectAt(j)) = PairsOf(j)
                /\ \A k \in 1..Len(RowsOf(SubjectAt(j))) : InDest(RowsOf(SubjectAt(j))[k])

\* C12 as stated: at the moment a subject fails, in either engine, every row
\* computed for the subjects processed before it is in the destination.
C12_Original ==
    FailedAtPair =>
        \A j \in 1..(si - 1) :
            \A k \in 1..Len(RowsOf(SubjectAt(j))) : InDest(RowsOf(SubjectAt(j))[k])

\* C13 as stated: with no segmentation file found (none left after the subject
\* filter) a run of either engine ends with an error and leaves the
\* destination as it was.
C13_Original ==
    (files = {} /\ pc \in {"done", "failed"}) =>
        /\ pc = "failed"
        /\ dest = startDest /\ destExists = startExists

\* ---- rows per label
\* The pairs whose evaluation came to an end without an error.
Completed ==
    IF FailedAtPair THEN SubSeq(evaluated, 1, Len(evaluated) - 1) ELSE evaluated

\* Labels of the computed rows of the pair e = <<subject, ses1, ses2>>, in order.
LabelsOf(e) ==
    LET Mine(r) == <<r.subject, r.session1, r.session2>> = e
        mine == SelectSeq(produced, Mine)
    IN  [i \in 1..Len(mine) |-> mine[i].label]

\* A label that occurs in neither volume of the pair e.
AbsentFromBoth(e, label) ==
    label \notin SeqToSet(EvalVol(e, 1).vox) \cup SeqToSet(EvalVol(e, 2).vox)

\* C14: in the consecutive engine every evaluated pair that was not skipped has
\* exactly one row per entry of the requested label list, in list order, also
\* for labels in neither volume; a skipped pair has none; no row carries a
\* label outside the list.
C14_RowPerRequestedLabel ==
    (engine = "consecutive" /\ pc # "stopped") =>
        /\ \A n \in 1..Len(Completed) :
               LabelsOf(Completed[n]) =
                   (IF ShapeMismatch(Completed[n]) THEN <<>> ELSE ArgsLabels)
        /\ \A k \in 1..Len(produced) : produced[k].label \in SeqToSet(ArgsLabels)
        /\ pc = "done" =>
               \A i \in 1..Len(dest) :
                   IsRow(dest[i]) => dest[i].label \in SeqToSet(ArgsLabels)

\* A finished run evaluated a pair with a requested label in neither volume
\* and wrote a row for it.
C14_Witness ==
    /\ engine = "consecutive" /\ pc = "done"
    /\ \E n \in 1..Len(evaluated) : \E i \in 1..Len(dest) :
          /\ IsRow(dest[i])
          /\ <<dest[i].subject, dest[i].session1, dest[i].session2>> = evaluated[n]
          /\ AbsentFromBoth(evaluated[n], dest[i].label)

\* ---- metric values
\* The voxels of an image that carry a label.
Positions(img, label) == {k \in 1..Len(img.vox) : img.vox[k] = label}

One == Quot(1, 1)

AllZero(ds) == \A i \in 1..Len(ds) : ds[i] = 0

\* C15: comparing an image with itself gives, for every label present in it,
\* dice 1.0 (in both engines), volume_diff 0, surface distances that are all 0
\* (so every percentile of them, hd95 too, is 0) and surface dice 1.0.
C15_SelfComparison ==
    (fwd # <<>> /\ img1 = img2 /\ Positions(img1, lbl) # {}) =>
        /\ fwd[1].dice = One /\ fwd[1].dice_cons = One
        /\ fwd[1].volume_diff = 0 /\ fwd[1].volume1 = fwd[1].volume2
        /\ fwd[1].volume1 > 0
        /\ ~fwd[1].surface_distances.none
        /\ AllZero(fwd[1].surface_distances.distances_gt_to_pred)
        /\ AllZero(fwd[1].surface_distances.distances_pred_to_gt)
        /\ fwd[1].surface_dice = One

\* An image was compared with itself for a label whose region has an inner
\* voxel, one that is not on its surface.
C15_Witness ==
    /\ fwd # <<>> /\ img1 = img2 /\ Positions(img1, lbl) # {}
    /\ MaskSum(binary_erosion(Mask(img1, lbl))) > 0

Swapped(r, q) ==
    /\ q.volume1 = r.volume2 /\ q.volume2 = r.volume1
    /\ q.volume_diff = 0 - r.volume_diff
    /\ q.dice = r.dice /\ q.dice_cons = r.dice_cons
    /\ q.surface_dice = r.surface_dice

\* C16 as stated: for every two images of one shape and every label, comparing
\* them the other way round swaps volume1 and volume2, negates volume_diff and
\* leaves dice and surface dice as they were.
C16_Original == (fwd # <<>> /\ bwd # <<>>) => Swapped(fwd[1], bwd[1])

\* C16 amended: the same for two images of one shape and one voxel spacing.
C16_SwapSameSpacing ==
    (fwd # <<>> /\ bwd # <<>> /\ img1.zooms = img2.zooms) => Swapped(fwd[1], bwd[1])

\* Two images of one spacing with regions of different size that overlap in
\* part were compared both ways round.
C16_Witness ==
    /\ fwd # <<>> /\ bwd # <<>> /\ img1.zooms = img2.zooms
    /\ fwd[1].volume_diff # 0
    /\ ~fwd[1].dice.nan /\ fwd[1].dice.num > 0 /\ fwd[1].dice.num < fwd[1].dice.den

\* C17: dice is nan, not 0, when the label is in neither image; otherwise it is
\* a number, equal to 2 |m1 and m2| / (|m1| + |m2|), between 0 and 1, and 0
\* exactly when the two regions share no voxel. In both engines.
C17_DiceValue ==
    fwd # <<>> =>
        LET A == Positions(img1, lbl)
            B == Positions(img2, lbl)
        IN  \A d \in {fwd[1].dice, fwd[1].dice_cons} :
                IF A = {} /\ B = {}
                THEN d.nan /\ d # Quot(0, 1)
                ELSE /\ ~d.nan
                     /\ d.den > 0 /\ 0 <= d.num /\ d.num <= d.den
                     /\ d.num * (Cardinality(A) + Cardinality(B))
                            = 2 * Cardinality(A \cap B) * d.den
                     /\ d.num = 0 <=> A \cap B = {}

\* A label in neither image was compared: dice is the nan sentinel.
C17_Witness ==
    /\ fwd # <<>> /\ Positions(img1, lbl) = {} /\ Positions(img2, lbl) = {}
    /\ fwd[1].dice.nan /\ fwd[1].dice_cons.nan

\* What compute_surface_dice returns when a surface is empty.
SurfaceDiceSentinel ==
    compute_surface_dice(
        [none |-> TRUE, distances_gt_to_pred |-> <<>>, distances_pred_to_gt |-> <<>>],
        tolerance)

\* C18 as stated: an edge-case value is never a value of a genuine measurement:
\* dice of two regions not both empty is not the nan sentinel, and the surface
\* dice of two non-empty surfaces is not the value returned for an empty one.
C18_Original ==
    fwd # <<>> =>
        /\ (Positions(img1, lbl) # {} \/ Positions(img2, lbl) # {}) => fwd[1].dice # NaN
        /\ ~fwd[1].surface_distances.none => fwd[1].surface_dice # SurfaceDiceSentinel

\* ---- identity
FileName == full[Len(full)]

RunDir == NameAbove(full, 2)

\* The consecutive engine's filter lets the subject through.
Passes(subject) == subjects_arg = {} \/ subject \in subjects_arg

\* C19: in the consecutive engine a file named {subject}_{session}_aparcDKT+aseg.mgz,
\* the subject token starting sub- and the session token starting ses-, is
\* indexed under the subject and session of its name, whatever the directories
\* above it are called (and is left out only by the subject filter).
C19_FlatNameWins ==
    rcons # <<>> =>
        \A subj \in SubTokens, sess \in SesTokens :
            FileName = FlatName(subj, sess) =>
                rcons[1] = (IF Passes(subj) THEN Resolved(subj, sess) ELSE NotIndexed)

\* A file with a flat name lies in the mri directory of a run directory that
\* names another subject and session, and was indexed by its own name.
C19_Witness ==
    /\ rcons # <<>> /\ rcons[1].indexed
    /\ FileName = FlatName(Sub02, Ses1)
    /\ RunDir = RunSub01Site
    /\ rcons[1].subject = Sub02 /\ rcons[1].session = Ses1
    /\ from_directories(full).subject = Sub01

\* C20 as stated: for a run directory whose name starts with ses-, both engines
\* index the file under the subject simon and the run directory's full name.
C20_Original ==
    StartsWith(RunDir, SesPrefix) =>
        /\ (rall # <<>> /\ rall[1].indexed) => rall[1] = Resolved(Simon, RunDir)
        /\ (rcons # <<>> /\ rcons[1].indexed) => rcons[1] = Resolved(Simon, RunDir)

\* C20 amended: the session is the run directory's full name and the subject is
\* fixed, simon in the all-pairs engine and long.simonBase_all_2025 in the
\* consecutive engine, where a flat file name takes precedence.
C20_PooledSubject ==
    StartsWith(RunDir, SesPrefix) =>
        /\ (rall # <<>> /\ rall[1].indexed) => rall[1] = Resolved(Simon, RunDir)
        /\ (rcons # <<>> /\ rcons[1].indexed /\ ~flat_match(FileName).ok) =>
               rcons[1] = Resolved(LongSimonBase, RunDir)

\* Both engines indexed a file of the run directory
\* ses-017.long.simonBase_all_2025, each under its fixed subject.
C20_Witness ==
    /\ RunDir = RunSes017
    /\ rall # <<>> /\ rall[1] = Resolved(Simon, RunSes017)
    /\ rcons # <<>> /\ rcons[1] = Resolved(LongSimonBase, RunSes017)

\* s is the part of name before its first sep, all of name when it has none.
BeforeFirst(s, name, sep) ==
    IF Occurrences(name, sep) = {} THEN s = name
    ELSE /\ Len(s) + 1 \in Occurrences(name, sep)
         /\ \A m \in Occurrences(name, sep) : m >= Len(s) + 1
         /\ s = SubSeq(name, 1, Len(s))

\* What the consecutive engine takes from the directories was not replaced by
\* the groups of a flat file name.
ByDirectories == rcons # <<>> /\ rcons[1].indexed /\ ~flat_match(FileName).ok

\* C21 as stated: for a run directory whose name starts with sub-, both engines
\* take as subject the part of the name before its first "_" and as session the
\* whole name.
C21_Original ==
    StartsWith(RunDir, SubPrefix) =>
        /\ (rall # <<>> /\ rall[1].indexed) =>
               /\ BeforeFirst(rall[1].subject, RunDir, Underscore)
               /\ rall[1].session = RunDir
        /\ ByDirectories =>
               /\ BeforeFirst(rcons[1].subject, RunDir, Underscore)
               /\ rcons[1].session = RunDir

\* C21 amended: the session is the whole name in both engines; the subject is
\* the part before the first "_" in the all-pairs engine and the part before
\* the first "_ses-" in the consecutive engine, and the two are the same when
\* the first "_" of the name begins "_ses-".
C21_SubjectOfSubRunDir ==
    StartsWith(RunDir, SubPrefix) =>
        /\ (rall # <<>> /\ rall[1].indexed) =>
               /\ BeforeFirst(rall[1].subject, RunDir, Underscore)
               /\ rall[1].session = RunDir
        /\ ByDirectories =>
               /\ BeforeFirst(rcons[1].subject, RunDir, UnderscoreSes)
               /\ rcons[1].session = RunDir
        /\ (rall # <<>> /\ rall[1].indexed /\ ByDirectories
              /\ BeforeFirst(rall[1].subject, RunDir, UnderscoreSes)) =>
               rcons[1].subject = rall[1].subject

\* Both engines indexed a file of the run directory
\* sub-01_ses-siteATV.long.sub01_base_all_sites under sub-01 and that name.
C21_Witness ==
    /\ RunDir = RunSub01Site
    /\ rall # <<>> /\ rall[1] = Resolved(Sub01, RunSub01Site)
    /\ ByDirectories /\ rcons[1] = Resolved(Sub01, RunSub01Site)

\* ---- index and walk
\* The file at position i of the discovery order is the first of its subject
\* and session.
FirstOfKey(i) ==
    \A j \in 1..(i - 1) :
        ~(found[j].subject = found[i].subject /\ found[j].session = found[i].session)

\* The path the index holds for a subject and session.
Indexed(subject, session) == DictGet(DictGet(subject_files, subject), session)

\* C22 as stated: when several discovered files resolve to one subject and
\* session, the index holds the path of the one discovered first.
C22_Original ==
    pc = "indexed" =>
        \A i \in 1..Len(found) :
            FirstOfKey(i) => Indexed(found[i].subject, found[i].session) = found[i].path

\* Levels between the root and the directory holding the file.
DepthOf(f) == Len(f) - 1 - Len(Root)

WalkOver == pc \in {"indexed", "failed"}

\* C23: with a depth limit d >= 0 the consecutive engine's walk accepts no file
\* of a directory more than d levels below the root, and once the walk is over
\* it has accepted every file at most d levels below the root whose name
\* matches and whose subject passes the filter.
C23_DepthLimit ==
    (engine = "consecutive" /\ max_depth # <<>>) =>
        /\ \A i \in 1..Len(found) : DepthOf(found[i].path) <= max_depth[1]
        /\ WalkOver =>
               \A f \in tree :
                   (DepthOf(f) <= max_depth[1] /\ found_entry(f, subjects_arg).indexed) =>
                       \E i \in 1..Len(found) : found[i].path = f

\* A walk limited to one level is over: the flat file one level down was
\* accepted, the segmentation two levels down was not.
C23_Witness ==
    /\ engine = "consecutive" /\ max_depth = <<1>> /\ pc = "indexed"
    /\ \E i \in 1..Len(found) : DepthOf(found[i].path) = 1
    /\ \E f \in tree :
           /\ DepthOf(f) = 2 /\ found_entry(f, subjects_arg).indexed
           /\ \A i \in 1..Len(found) : found[i].path # f

\* ---- output table
\* The columns the output table is specified to have.
StatedColumns ==
    <<"subject", "session1", "session2", "label", "label_name", "structure",
      "region_category", "volume1", "volume2", "volume_diff", "dice",
      "surface_dice", "hd95">>

\* C24 as stated: the header of every table an engine writes names exactly the
\* columns subject, session1, session2, label, label_name, structure,
\* region_category, volume1, volume2, volume_diff, dice, surface_dice, hd95 in
\* that order, in the consecutive and in the all-pairs engine.
C24_Original ==
    pc # "idle" =>
        \A i \in 1..Len(WrittenThisRun) :
            WrittenThisRun[i].kind = "header" =>
                WrittenThisRun[i].columns = StatedColumns

\* ---- label metadata
\* The pair e = <<subject, ses1, ses2>> was evaluated to the end and not skipped.
Measured(e) ==
    /\ \E k \in 1..Len(Completed) : Completed[k] = e
    /\ ~ShapeMismatch(e)

\* C25: in the consecutive engine a row whose label has no entry in the lookup
\* table, or that is computed without a table, has label_name, structure and
\* region_category undefined, and it is still computed: every measured pair has
\* its row for every requested label, with its own subject, sessions and label,
\* and a completed run has written them all.
C25_MetadataOptional ==
    (engine = "consecutive" /\ pc \notin {"idle", "stopped"}) =>
        /\ \A k \in 1..Len(produced) :
               ~DictHas(lut, produced[k].label) =>
                   /\ produced[k].label_name = <<>>
                   /\ produced[k].structure = <<>>
                   /\ produced[k].region_category = <<>>
        /\ \A k \in 1..Len(evaluated) :
               Measured(evaluated[k]) =>
                   \A n \in 1..Len(ArgsLabels) :
                       \E m \in 1..Len(produced) :
                           /\ <<produced[m].subject, produced[m].session1,
                                 produced[m].session2>> = evaluated[k]
                           /\ produced[m].label = ArgsLabels[n]
                           /\ produced[m].kind = "row"
        /\ pc = "done" => dest = <<Header>> \o produced

\* A run with a lookup table that lists label 1 only is complete: the table
\* holds a row of label 2 without metadata and a row of label 1 with its name.
C25_Witness ==
    /\ engine = "consecutive" /\ pc = "done" /\ lut # <<>>
    /\ \E i \in 1..Len(dest) :
           /\ IsRow(dest[i]) /\ dest[i].label = 2
           /\ dest[i].label_name = <<>> /\ dest[i].structure = <<>>
           /\ dest[i].region_category = <<>>
    /\ \E i \in 1..Len(dest) :
           /\ IsRow(dest[i]) /\ dest[i].label = 1 /\ dest[i].label_name # <<>>

\* ---- writer state
\* The all-pairs engine has set its flag and the process is alive or has ended
\* by itself.
FlagLive == engine = "allpairs" /\ pc \in {"subjects", "pairs", "flush", "done", "failed"}

\* C26 as stated: the flag is false when a run starts, true once the writer
\* has appended, and stays true for the rest of the run.
C26_Original ==
    FlagLive =>
        /\ passed = <<>> => ~header_written
        /\ passed # <<>> => header_written

\* C26 amended: the flag starts as "the destination exists", false on a fresh
\* destination only; it is true once the writer has appended; it is never false
\* again in the run.
C26_FlagLifecycle ==
    FlagLive =>
        /\ passed = <<>> => (header_written <=> startExists)
        /\ passed # <<>> => header_written

\* On a fresh destination the flag, false until then, is true after the first
\* append and the run goes on.
C26_Witness ==
    /\ FlagLive /\ pc = "pairs" /\ ~startExists
    /\ Len(passed) = 1 /\ header_written

\* ---- repeated runs
\* Number of lines of the table equal to r.
Count(r, lines) == Cardinality({i \in 1..Len(lines) : lines[i] = r})

\* C27: a completed run of the all-pairs engine adds one more copy of every
\* row it computes to the table, whatever the table held before: rows of an
\* earlier completed run, which are there already, are written again. Run by
\* run this gives k copies after k completed runs; after the first run there
\* is one, after two completed runs two.
C27_RerunDuplicates ==
    (engine = "allpairs" /\ pc = "done") =>
        \A k \in 1..Len(produced) :
            /\ Count(produced[k], dest) = Count(produced[k], startDest) + 1
            /\ run = 1 => Count(produced[k], dest) = 1
            /\ (run > 1 /\ prevEnd = "done") => Count(produced[k], startDest) >= 1
            /\ (run = 2 /\ prevEnd = "done") => Count(produced[k], dest) = 2

\* The second of two completed runs has ended and its rows are in the table
\* twice.
C27_Witness ==
    /\ engine = "allpairs" /\ pc = "done" /\ run = 2 /\ prevEnd = "done"
    /\ produced # <<>>
    /\ \A k \in 1..Len(produced) : Count(produced[k], dest) = 2

\* ---- completed run
\* The data rows this invocation has put into the destination, in file order.
RowsWritten == SelectSeq(WrittenThisRun, IsRow)

\* C28: in the all-pairs engine, whenever a subject has been finished, and so
\* when the run has completed, the buffer is empty and the rows the run has
\* written are exactly the rows it has computed, each once.
C28_AllWrittenOnce ==
    (engine = "allpairs" /\ pc \in {"subjects", "done"}) =>
        /\ buffer = <<>>
        /\ RowsWritten = produced

\* A run of two subjects has completed after several writes, one of them on a
\* buffer below the chunk size.
C28_Witness ==
    /\ engine = "allpairs" /\ pc = "done"
    /\ Len(subject_files) = 2 /\ Len(passed) >= 2
    /\ \E k \in 1..Len(passed) : passed[k] < chunk_size
    /\ RowsWritten = produced

\* ---- header
\* C29: the all-pairs engine's writer puts a header into the destination in
\* exactly one case, as the first line of the run's first non-empty write when
\* the destination did not exist at the start of the run; a destination that
\* existed then, empty or not, gets no header in the run.
C29_HeaderIffFresh ==
    (engine = "allpairs" /\ pc # "idle") =>
        /\ HeaderCount(WrittenThisRun) = (IF ~startExists /\ passed # <<>> THEN 1 ELSE 0)
        /\ HeaderCount(WrittenThisRun) = 1 =>
               /\ WrittenThisRun[1] = Header
               /\ Len(WrittenThisRun) = 1 + Sum(passed)

\* A run over a destination that existed and was empty has completed: the
\* table holds its rows and no header.
C29_Witness ==
    /\ engine = "allpairs" /\ pc = "done" /\ run = 1
    /\ startExists /\ startDest = <<>>
    /\ passed # <<>> /\ dest # <<>> /\ HeaderCount(dest) = 0

\* ---- concurrent writers
\* C30 as stated: when two processes of the engine have appended to one fresh
\* destination concurrently, the destination holds exactly one header line.
C30_Original ==
    (procs # <<>> /\ \A p \in Procs : procs[p].pc = "done") => HeaderCount(dest) = 1

====
